---- MODULE Spec2Model ----
(* Password-recovery state machine of netflix.py: the mailbox poll with its   *)
(* per-account watermark, the detection listener, the reset-link wait, the    *)
(* browser password changes and the outer retry loop of Netflix.run.          *)
EXTENDS Integers, Sequences, FiniteSets, TLC

\* ---------------------------------------------------------------- bounds
\* messages ever generated for all accounts together (mailboxes plus mail still
\* in transit)
MaxMail == 4
\* polls of the reset-link wait after which the 10 minutes have certainly passed
WaitLimit == 1

\* ------------------------------------------------------- program constants
max_num_of_attempts == 12

\* seconds between two runs of protect_account
protection_interval == 124

AllAccounts == {"a1", "a2"}
NoKey == -1
NoAccount == "none"

\* ------------------------------------------------------------- mail bodies
\* A body is the set of markers the classifier's regular expressions look for;
\* origin records who caused the mail (not visible to the program).
EchoMail == [body |-> {"URL_YOUR_ACCOUNT"}, origin |-> "self"]
ThirdMail == [body |-> {"URL_YOUR_ACCOUNT"}, origin |-> "third"]
ForcedMail == [body |-> {"URL_LOGIN_HELP"}, origin |-> "provider"]
LinkMail == [body |-> {"URL_ACCOUNT_ACCESS", "URL_PASSWORD"}, origin |-> "self"]
OtherMail == [body |-> {}, origin |-> "other"]

VARIABLES
    accounts,      \* MULTIPLE_NETFLIX_ACCOUNTS
    force,         \* args.force
    mailbox,       \* per account: the messages TO that account, index = mail ID
    outbox,        \* per account: provider mail not delivered yet (link, echo)
    pwd,           \* per account: the password the provider currently holds
    last_id,       \* redis "<account>.last_id" (NoKey when the key is absent)
    need_to_do,    \* redis "<account>.need_to_do" (NoKey when the key is absent)
    first_time,    \* self.first_time
    task,          \* per account: state of this round's detection future
    result,        \* per account: what the detection future holds
    pc,            \* position of the main thread in run()
    cur,           \* account of the incident being handled (u)
    evt,           \* event_type of the incident
    num,           \* attempt counter of the retry loop
    waited,        \* polls made by the current reset-link wait
    okMails,       \* success notifications of the current incident (send_mail calls)
    failMails,     \* failure notifications of the current incident (send_mail calls)
    unsent,        \* send_mail calls of the current incident that returned False
    tries,         \* attempts started in the current incident
    ended,         \* how the current incident left the retry loop
    lastDet,       \* per account: what the last detection poll saw and did
    lastFetch,     \* per account: IDs returned by the last two successful fetches
    subs,          \* password submissions of the current attempt, in order
    flows,         \* per account: recovery flows entered and not yet left
    why,           \* what raised in the try block of the current attempt
    trig,          \* origin of the mail that started the current incident
    jar,           \* the account whose session cookies the browser holds
    tm,            \* account protection: enabled, seconds since it last ran
    he,            \* one call of handle_event: its position and local values
    rx,            \* the exception that left run(), and what the wrapper did
    ag,            \* one profile loop of the account guard
    pa,            \* protect_account: its position, timer and what it has done
    rt             \* one call of a function wrapped by retry

vars == <<accounts, force, mailbox, outbox, pwd, last_id, need_to_do, first_time,
          task, result, pc, cur, evt, num, waited, okMails, failMails, unsent, tries,
          ended, lastDet, lastFetch, trig, subs, flows, why, jar, tm, he, rx, ag, pa, rt>>
\* the operations modelled on their own, which the run loop leaves alone
sideVars == <<he, rx, ag, pa, rt>>
\* the variables of the run loop and its environment
runVars == <<accounts, force, mailbox, outbox, pwd, last_id, need_to_do, first_time,
             task, result, pc, cur, evt, num, waited, okMails, failMails, unsent, tries,
             ended, lastDet, lastFetch, trig, subs, flows, why, jar, tm>>

envVars == <<mailbox, outbox, pwd>>
redisVars == <<last_id, need_to_do>>
incVars == <<cur, evt, num, waited, okMails, failMails, unsent, tries, ended, trig, subs,
            flows, why>>
detVars == <<task, result, lastDet, first_time>>

\* ----------------------------------------------------------- classifier
is_password_reset_result(text) == "URL_YOUR_ACCOUNT" \in text

is_password_reset_request(text) == "URL_ACCOUNT_ACCESS" \in text

is_force_change_password_request(text) == "URL_LOGIN_HELP" \in text

RESET_URL_REGEX_search(text) == "URL_PASSWORD" \in text

\* ---------------------------------------------------------- keyed store
get_mail_last_id(a) == IF last_id[a] # NoKey THEN last_id[a] ELSE 0

is_need_to_do(a) == IF need_to_do[a] # NoKey THEN need_to_do[a] ELSE 1

\* ------------------------------------------------------------- __fetch_mail
\* The loop over the search result, newest first: IDs at or below the watermark
\* and IDs whose FETCH does not answer OK are skipped; the first other one is
\* returned. 0 stands for None.
\* variant: the watermark test lets the ID equal to the watermark through
RECURSIVE ScanMailLt(_, _, _)
ScanMailLt(i, last, failed) ==
    IF i = 0 THEN 0
    ELSE IF i < last THEN ScanMailLt(i - 1, last, failed)
    ELSE IF i \in failed THEN ScanMailLt(i - 1, last, failed)
    ELSE i

\* variant: the search result is walked oldest first
ScanMailOldest(i, last, failed) ==
    LET ok == {j \in 1..i : j > last /\ j \notin failed}
    IN IF ok = {} THEN 0 ELSE CHOOSE j \in ok : \A k \in ok : j <= k

RECURSIVE ScanMail(_, _, _)
ScanMail(i, last, failed) ==
    IF i = 0 THEN 0
    ELSE IF i <= last THEN ScanMail(i - 1, last, failed)
    ELSE IF i \in failed THEN ScanMail(i - 1, last, failed)
    ELSE i

fetch_mail(a, failed) == ScanMail(Len(mailbox[a]), get_mail_last_id(a), failed)

\* variant: only the ID of a mail with the reset-link marker is recorded
set_mail_last_id_link_only(a, id) ==
    IF id # 0 /\ is_password_reset_request(mailbox[a][id].body)
    THEN [last_id EXCEPT ![a] = id] ELSE last_id

\* variant: the returned ID is not recorded
set_mail_last_id_skipped(a, id) == last_id

\* set_mail_last_id after a returned message; nothing is written for None
set_mail_last_id(a, id) == IF id = 0 THEN last_id ELSE [last_id EXCEPT ![a] = id]

\* The mailbox once the watermark is id: a message at or below the watermark is
\* skipped by every later scan (id <= last_id), so its content is dropped from
\* the state and only its ID stays.
Skipped(a, id) ==
    [mailbox EXCEPT ![a] = [i \in 1..Len(@) |-> IF i <= id THEN OtherMail ELSE @[i]]]

\* the IDs a FETCH can fail for in this poll
Fetchable(a) == {i \in 1..Len(mailbox[a]) : i > get_mail_last_id(a)}

NoteFetch(a, id) ==
    IF id = 0 THEN lastFetch
    ELSE [lastFetch EXCEPT ![a] =
            [before |-> get_mail_last_id(a), id |-> id,
             prevMax |-> IF lastFetch[a].id > lastFetch[a].prevMax
                         THEN lastFetch[a].id ELSE lastFetch[a].prevMax,
             waitEvt |-> lastFetch[a].waitEvt]]

\* variant: the swallowing branch leaves the flag as it found it
ListenerOutcomeKeepsFlag(a, text) ==
    IF is_password_reset_result(text) THEN
        IF is_need_to_do(a) = 0
        THEN [ret |-> 0, flag |-> need_to_do[a], ft |-> first_time,
              verdict |-> "swallowed"]
        ELSE IF a \notin first_time /\ ~force
             THEN [ret |-> 0, flag |-> need_to_do[a],
                   ft |-> first_time \cup {a}, verdict |-> "firstrun"]
             ELSE [ret |-> 1, flag |-> need_to_do[a],
                   ft |-> first_time \cup {a}, verdict |-> "incident"]
    ELSE IF is_force_change_password_request(text)
         THEN [ret |-> 2, flag |-> need_to_do[a], ft |-> first_time,
               verdict |-> "incident"]
         ELSE [ret |-> 0, flag |-> need_to_do[a], ft |-> first_time,
               verdict |-> "unrelated"]

\* variant: the first-run branch does not record the account
ListenerOutcomeForgets(a, text) ==
    IF is_password_reset_result(text) THEN
        IF is_need_to_do(a) = 0
        THEN [ret |-> 0, flag |-> 1, ft |-> first_time, verdict |-> "swallowed"]
        ELSE IF a \notin first_time
             THEN IF force
                  THEN [ret |-> 1, flag |-> need_to_do[a],
                        ft |-> first_time \cup {a}, verdict |-> "incident"]
                  ELSE [ret |-> 0, flag |-> need_to_do[a],
                        ft |-> first_time, verdict |-> "firstrun"]
             ELSE [ret |-> 1, flag |-> need_to_do[a], ft |-> first_time,
                   verdict |-> "incident"]
    ELSE IF is_force_change_password_request(text)
         THEN [ret |-> 2, flag |-> need_to_do[a], ft |-> first_time,
               verdict |-> "incident"]
         ELSE [ret |-> 0, flag |-> need_to_do[a], ft |-> first_time,
               verdict |-> "unrelated"]

\* variant: the first-run test comes before the test of the flag
ListenerOutcomeFirstRunFirst(a, text) ==
    IF is_password_reset_result(text) THEN
        IF a \notin first_time
        THEN IF force
             THEN [ret |-> 1, flag |-> need_to_do[a],
                   ft |-> first_time \cup {a}, verdict |-> "incident"]
             ELSE [ret |-> 0, flag |-> need_to_do[a],
                   ft |-> first_time \cup {a}, verdict |-> "firstrun"]
        ELSE IF is_need_to_do(a) = 0
             THEN [ret |-> 0, flag |-> 1, ft |-> first_time,
                   verdict |-> "swallowed"]
             ELSE [ret |-> 1, flag |-> need_to_do[a], ft |-> first_time,
                   verdict |-> "incident"]
    ELSE IF is_force_change_password_request(text)
         THEN [ret |-> 2, flag |-> need_to_do[a], ft |-> first_time,
               verdict |-> "incident"]
         ELSE [ret |-> 0, flag |-> need_to_do[a], ft |-> first_time,
               verdict |-> "unrelated"]

\* variant: the forced-reset branch goes through the flag and first-run tests
ListenerOutcomeForcedGated(a, text) ==
    IF is_password_reset_result(text) \/ is_force_change_password_request(text)
    THEN LET t == IF is_password_reset_result(text) THEN 1 ELSE 2 IN
        IF is_need_to_do(a) = 0
        THEN [ret |-> 0, flag |-> 1, ft |-> first_time, verdict |-> "swallowed"]
        ELSE IF a \notin first_time
             THEN IF force
                  THEN [ret |-> t, flag |-> need_to_do[a],
                        ft |-> first_time \cup {a}, verdict |-> "incident"]
                  ELSE [ret |-> 0, flag |-> need_to_do[a],
                        ft |-> first_time \cup {a}, verdict |-> "firstrun"]
             ELSE [ret |-> t, flag |-> need_to_do[a], ft |-> first_time,
                   verdict |-> "incident"]
    ELSE [ret |-> 0, flag |-> need_to_do[a], ft |-> first_time,
          verdict |-> "unrelated"]

\* variant: the forced-reset pattern is tested before the password-changed one
ListenerOutcomeForcedFirst(a, text) ==
    IF is_force_change_password_request(text)
    THEN [ret |-> 2, flag |-> need_to_do[a], ft |-> first_time,
          verdict |-> "incident"]
    ELSE IF is_password_reset_result(text) THEN
        IF is_need_to_do(a) = 0
        THEN [ret |-> 0, flag |-> 1, ft |-> first_time, verdict |-> "swallowed"]
        ELSE IF a \notin first_time
             THEN IF force
                  THEN [ret |-> 1, flag |-> need_to_do[a],
                        ft |-> first_time \cup {a}, verdict |-> "incident"]
                  ELSE [ret |-> 0, flag |-> need_to_do[a],
                        ft |-> first_time \cup {a}, verdict |-> "firstrun"]
             ELSE [ret |-> 1, flag |-> need_to_do[a], ft |-> first_time,
                   verdict |-> "incident"]
    ELSE [ret |-> 0, flag |-> need_to_do[a], ft |-> first_time,
          verdict |-> "unrelated"]

\* ------------------------------------------------ pwd_result_mail_listener
\* What the listener does with a fetched body: ret is the event type returned
\* (0 for None), flag the value left in need_to_do, ft the new first_time.
ListenerOutcome(a, text) ==
    IF is_password_reset_result(text) THEN
        IF is_need_to_do(a) = 0
        THEN [ret |-> 0, flag |-> 1, ft |-> first_time, verdict |-> "swallowed"]
        ELSE IF a \notin first_time
             THEN IF force
                  THEN [ret |-> 1, flag |-> need_to_do[a],
                        ft |-> first_time \cup {a}, verdict |-> "incident"]
                  ELSE [ret |-> 0, flag |-> need_to_do[a],
                        ft |-> first_time \cup {a}, verdict |-> "firstrun"]
             ELSE [ret |-> 1, flag |-> need_to_do[a], ft |-> first_time,
                   verdict |-> "incident"]
    ELSE IF is_force_change_password_request(text)
         THEN [ret |-> 2, flag |-> need_to_do[a], ft |-> first_time,
               verdict |-> "incident"]
         ELSE [ret |-> 0, flag |-> need_to_do[a], ft |-> first_time,
               verdict |-> "unrelated"]

EventClass(text) ==
    IF is_password_reset_result(text) THEN 1
    ELSE IF is_force_change_password_request(text) THEN 2 ELSE 0

NoteDetection(a, m, o) ==
    [lastDet EXCEPT ![a] =
        [cls |-> EventClass(m.body),
         flag |-> IF EventClass(m.body) = 1 THEN is_need_to_do(a) ELSE NoKey,
         verdict |-> o.verdict,
         origin |-> m.origin,
         after |-> lastDet[a].after,
         swallow |-> o.verdict = "swallowed",
         ignored |-> IF o.verdict = "firstrun" THEN lastDet[a].ignored + 1
                     ELSE lastDet[a].ignored,
         seenAt |-> lastDet[a].seenAt,
         late |-> FALSE,
         forced |-> is_force_change_password_request(m.body)]]

\* A detection poll that got through to the mailbox: seenAt keeps the highest
\* mail ID present at the account's first such poll (0 once the watermark has
\* reached it, every later ID being above both), late tells whether the
\* message classified now (id, 0 for none) arrived after that poll.
NoteSeen(a, id, det) ==
    LET seen == IF lastDet[a].seenAt = NoKey THEN Len(mailbox[a])
                ELSE lastDet[a].seenAt
        mark == IF id = 0 THEN get_mail_last_id(a) ELSE id
    IN [det EXCEPT ![a].seenAt = IF seen <= mark THEN 0 ELSE seen,
                   ![a].late = IF id = 0 THEN @
                               ELSE lastDet[a].seenAt # NoKey
                                    /\ id > lastDet[a].seenAt]

\* one detection future, run by a pool thread
pwd_result_mail_listener(a) ==
    /\ a \in accounts
    /\ task[a] = "queued"
    /\ task' = [task EXCEPT ![a] = "done"]
    /\ \/ \* IMAP login or search fails: the future holds the exception
          /\ result' = [result EXCEPT ![a] = -1]
          /\ UNCHANGED <<mailbox, last_id, need_to_do, first_time, lastDet, lastFetch>>
       \/ \E failed \in SUBSET Fetchable(a) :
            LET id == fetch_mail(a, failed) IN
            /\ last_id' = set_mail_last_id(a, id)
            /\ mailbox' = Skipped(a, set_mail_last_id(a, id)[a])
            /\ lastFetch' = NoteFetch(a, id)
            /\ IF id = 0
               THEN /\ result' = [result EXCEPT ![a] = 0]
                    /\ lastDet' = NoteSeen(a, 0, lastDet)
                    /\ UNCHANGED <<need_to_do, first_time>>
               ELSE LET m == mailbox[a][id]
                        o == ListenerOutcome(a, m.body) IN
                    /\ result' = [result EXCEPT ![a] = o.ret]
                    /\ need_to_do' = [need_to_do EXCEPT ![a] = o.flag]
                    /\ first_time' = o.ft
                    /\ lastDet' = NoteSeen(a, id, NoteDetection(a, m, o))
    /\ UNCHANGED <<sideVars, jar, tm, accounts, force, outbox, pwd, pc, incVars>>

\* ------------------------------------------------------------ environment
Generated(a) == Len(mailbox[a]) + outbox[a].link + outbox[a].echo

\* messages generated for all accounts together
GeneratedAll == Generated("a1") + Generated("a2")

CanMail(a) == GeneratedAll < MaxMail

\* the provider queues a mail of kind k ("link" or "echo") for the account
Queue(a, k) == [outbox EXCEPT ![a][k] = @ + 1]

\* a queued provider mail reaches the mailbox
Deliver(a) ==
    /\ a \in accounts
    /\ \E k \in {"link", "echo"} :
         /\ outbox[a][k] > 0
         /\ outbox' = [outbox EXCEPT ![a][k] = @ - 1]
         /\ mailbox' = [mailbox EXCEPT ![a] =
                          Append(@, IF k = "link" THEN LinkMail ELSE EchoMail)]
    /\ UNCHANGED <<sideVars, jar, tm, accounts, force, pwd, redisVars, detVars, pc, incVars, lastFetch>>

\* somebody else changes the password; the provider's confirmation arrives
ThirdPartyChange(a) ==
    /\ a \in accounts
    /\ CanMail(a)
    /\ pwd' = [pwd EXCEPT ![a] = "evil"]
    /\ mailbox' = [mailbox EXCEPT ![a] = Append(@, ThirdMail)]
    /\ UNCHANGED <<sideVars, jar, tm, accounts, force, outbox, redisVars, detVars, pc, incVars, lastFetch>>

\* the provider asks the user to change the password
ProviderForce(a) ==
    /\ a \in accounts
    /\ CanMail(a)
    /\ mailbox' = [mailbox EXCEPT ![a] = Append(@, ForcedMail)]
    /\ UNCHANGED <<sideVars, jar, tm, accounts, force, outbox, pwd, redisVars, detVars, pc, incVars, lastFetch>>

\* any other mail to the account
UnrelatedMail(a) ==
    /\ a \in accounts
    /\ CanMail(a)
    /\ mailbox' = [mailbox EXCEPT ![a] = Append(@, OtherMail)]
    /\ UNCHANGED <<sideVars, jar, tm, accounts, force, outbox, pwd, redisVars, detVars, pc, incVars, lastFetch>>

\* --------------------------------------------------------------- run: round
\* the executor is created and one detection future per account is submitted
SubmitRound ==
    /\ pc = "submit"
    /\ task' = [a \in AllAccounts |-> IF a \in accounts THEN "queued" ELSE "idle"]
    /\ result' = [a \in AllAccounts |-> 0]
    /\ pc' = "collect"
    /\ UNCHANGED <<sideVars, jar, tm, accounts, force, envVars, redisVars, first_time, lastDet,
                   lastFetch, incVars>>

\* variant: a finished future is taken up whatever the main thread is doing,
\* as if the flows ran in the pool
as_completed_anytime(a) == task[a] = "done"

\* variant: a finished future is also taken up while a flow waits for its mail
as_completed_during_wait(a) == pc \in {"collect", "waitlink"} /\ task[a] = "done"

\* the for loop over as_completed(all_tasks) in the main thread: it takes the
\* next finished future only when the body of the previous iteration is over
as_completed(a) == pc = "collect" /\ task[a] = "done"

\* variant: a future that raised counts as an incident too
IsIncidentOrError(r) == r \in {-1, 1, 2}

\* variant: every future that did not raise counts
IsIncidentAny(r) == r \in {0, 1, 2}

\* variant: an exception of the loop body is not caught and leaves run
AfterErrorLeavesRun == "exit"

\* "except Exception as e: logger.error(...)" around the body of the
\* as_completed loop: the main thread goes on with the next finished future
AfterError == "collect"

\* "if not result: continue": None is skipped, a (data, event_type) goes on
IsIncident(r) == r \in {1, 2}

\* as_completed hands over a finished future: nothing, an exception (logged),
\* or an incident, for which the retry loop is entered after the browser is
\* prepared. The note of the detection is cleared with the future; what later
\* detections are compared with (after, ignored, seenAt) stays.
Collect(a) ==
    /\ as_completed(a)
    /\ task' = [task EXCEPT ![a] = "handled"]
    /\ IF IsIncident(result[a])
       THEN /\ cur' = a
            /\ evt' = result[a]
            /\ trig' = lastDet[a].origin
            /\ num' = 1
            /\ waited' = 0
            /\ okMails' = 0
            /\ failMails' = 0
            /\ unsent' = 0
            /\ tries' = 0
            /\ ended' = "no"
            /\ subs' = <<>>
            /\ flows' = [flows EXCEPT ![a] = @ + 1]
            /\ why' = "none"
            /\ pc' = "prep"
       ELSE /\ pc' = IF result[a] = -1 THEN AfterError ELSE pc
            /\ UNCHANGED incVars
    /\ lastDet' = [lastDet EXCEPT ![a] =
                      [cls |-> 0, flag |-> NoKey, verdict |-> "none",
                       origin |-> "other", after |-> @.after \/ @.swallow,
                       swallow |-> FALSE,
                       ignored |-> @.ignored, seenAt |-> @.seenAt, late |-> FALSE,
                       forced |-> FALSE]]
    /\ UNCHANGED <<sideVars, jar, tm, accounts, force, envVars, redisVars, first_time, result,
                   lastFetch>>

\* the flow of account a is left: control is back in the as_completed loop
Left(a) == [flows EXCEPT ![a] = @ - 1]

\* variant: the cookies stay
delete_all_cookies_noop(j) == j

\* driver.delete_all_cookies(): the browser holds nobody's session
delete_all_cookies(j) == NoAccount

\* clear_browser_data(), done: all browsing data are gone
clear_browser_data(j) == NoAccount

\* open_new_tab, close_other_tabs, clear_browser_data: an exception of any of
\* them leaves the incident through the handler around the loop body, with
\* the data cleared or not
PrepareBrowser ==
    /\ pc = "prep"
    /\ \/ /\ pc' = "forgot"
          /\ tries' = 1
          /\ ended' = ended
          /\ flows' = flows
          /\ jar' = clear_browser_data(jar)
       \/ /\ pc' = AfterError
          /\ tries' = tries
          /\ ended' = "error"
          /\ flows' = Left(cur)
          /\ jar' \in {jar, clear_browser_data(jar)}
    /\ UNCHANGED <<sideVars, tm, accounts, force, envVars, redisVars, detVars, lastFetch,
                   cur, evt, num, waited, okMails, failMails, unsent, trig, subs, why>>

\* account protection is off (ENABLE_ACCOUNT_PROTECTION is 0 or unset)
TmOff == [enabled |-> FALSE, elapsed |-> 0, ran |-> FALSE, gap |-> 0]

\* seconds one turn of the while loop can take, sleep(3) included
RoundSeconds == {62, 124}

\* now - last_protection_time, counted up to protection_interval
Elapsed(t) == IF t >= protection_interval THEN protection_interval ELSE t

\* variant: protection is due at the end of every round
ProtectDueAlways(e) == TRUE

\* "if now - last_protection_time >= 124"
ProtectDue(e) == e >= protection_interval

\* all futures are handled, the executor is left, the loop sleeps; with
\* account protection enabled and due, last_protection_time is set to now and
\* protect_account is called, a call of the main thread that returns (its
\* steps are ProtectStart .. ProtectLogout below) and leaves the session of any
\* account, or none, in the browser; then the next round starts
NextRound ==
    /\ pc = "collect"
    /\ \A a \in accounts : task[a] = "handled"
    /\ pc' = "submit"
    /\ cur' = NoAccount
    /\ evt' = 0
    /\ num' = 1
    /\ waited' = 0
    /\ okMails' = 0
    /\ failMails' = 0
    /\ unsent' = 0
    /\ tries' = 0
    /\ ended' = "no"
    /\ trig' = "other"
    /\ subs' = <<>>
    /\ \E d \in RoundSeconds, j \in {NoAccount} \cup accounts :
         LET e == Elapsed(tm.elapsed + d) IN
         IF tm.enabled /\ ProtectDue(e)
         THEN /\ tm' = [tm EXCEPT !.elapsed = 0, !.ran = TRUE, !.gap = e]
              /\ jar' = j
         ELSE /\ tm' = [tm EXCEPT !.elapsed = IF tm.enabled THEN e ELSE @,
                                  !.ran = FALSE]
              /\ jar' = jar
    /\ UNCHANGED <<sideVars, accounts, force, envVars, redisVars, detVars, lastFetch, flows,
                   why>>

\* ---------------------------------------------------------------- send_mail
\* variant: a failure to send leaves send_mail as an exception
send_mail_raising(ok) == IF ok THEN "True" ELSE "raise"

\* send_mail: ok tells whether everything in its try block works (INBOX set,
\* template read, SMTP login and delivery); any exception is logged and turned
\* into the return value False
send_mail(ok) == IF ok THEN "True" ELSE "False"

\* 1 for a call that returned False
NotSent(r) == IF r = "False" THEN 1 ELSE 0

\* ---------------------------------------------------------- run: retry loop
\* The finally clause of one loop iteration. broke: the try block ended with
\* break (success); raised: the except block itself raised (the screenshot
\* failed); flagTry: need_to_do as the try block left it; shot: whether the
\* screenshot taken for the failure mail works.
LoopTail(broke, raised, flagTry, shot, uns) ==
    /\ why' = "none"
    /\ IF num >= max_num_of_attempts
       THEN \E ok \in BOOLEAN :
              LET r == send_mail(ok)
                  called == shot /\ r # "raise" IN
              /\ need_to_do' = [flagTry EXCEPT ![cur] = 1]
              /\ failMails' = IF called THEN failMails + 1 ELSE failMails
              /\ unsent' = IF shot THEN uns + NotSent(r) ELSE uns
              /\ ended' = IF called THEN "exhausted" ELSE "error"
              /\ num' = num
              /\ tries' = tries
              /\ pc' = IF called THEN "collect" ELSE AfterError
              /\ flows' = Left(cur)
       ELSE /\ need_to_do' = flagTry
            /\ failMails' = failMails
            /\ unsent' = uns
            /\ num' = num + 1
            /\ IF broke
               THEN /\ pc' = "collect" /\ ended' = "recovered" /\ tries' = tries
                    /\ flows' = Left(cur)
               ELSE IF raised
                    THEN /\ pc' = AfterError /\ ended' = "error" /\ tries' = tries
                         /\ flows' = Left(cur)
                    ELSE /\ pc' = "forgot" /\ ended' = ended /\ tries' = tries + 1
                         /\ flows' = flows

\* variant: the random password is used for both event types
LinkResetPwdRandom(e) == "rnd8"

\* the password handed to __do_reset: the original one for event type 1, the
\* 8-character random one for event type 2
LinkResetPwd(e) == IF e = 1 THEN "orig" ELSE "rnd8"

\* variant: the flag is not set when the link arrives
FlagOnLinkMissing(a) == need_to_do

\* set_need_to_do(u, 0) on receipt of the reset link
FlagOnLink(a) == [need_to_do EXCEPT ![a] = 0]

\* set_need_to_do(u, 0) of the success branch
FlagOnSuccess(a) == [need_to_do EXCEPT ![a] = 0]

\* variant: a link mail without URL is taken as no mail
LinkListenerOutcomeLenient(text) ==
    IF is_password_reset_request(text) /\ RESET_URL_REGEX_search(text)
    THEN "link" ELSE "none"

\* pwd_reset_request_mail_listener on a fetched body
LinkListenerOutcome(text) ==
    IF is_password_reset_request(text)
    THEN IF RESET_URL_REGEX_search(text) THEN "link" ELSE "raise"
    ELSE "none"

\* the success branch of the try block (notification, flag) and the finally
\* clause that follows its break
Recovered ==
    \E ok \in BOOLEAN :
       LET r == send_mail(ok) IN
       IF r = "raise"
       THEN \* the call is inside the try block, after set_need_to_do for
            \* event type 2 and before it for event type 1
            /\ pc' = "failed"
            /\ why' = "error"
            /\ need_to_do' = IF evt = 2 THEN FlagOnSuccess(cur) ELSE need_to_do
            /\ UNCHANGED <<cur, evt, num, waited, okMails, failMails, unsent,
                           tries, ended, trig, flows>>
       ELSE /\ okMails' = okMails + 1
            /\ \E shot \in BOOLEAN :
                 LoopTail(TRUE, FALSE, FlagOnSuccess(cur), shot,
                          unsent + NotSent(r))
            /\ UNCHANGED <<cur, evt, waited, trig>>

\* an exception inside the try block: pc "failed" is the except clause, w
\* tells what raised ("nourl": link mail without URL, "timeout": the wait for
\* the link, "imap": the mailbox access, "error": anything else)
RaiseFor(w) ==
    /\ pc' = "failed"
    /\ why' = w
    /\ UNCHANGED <<need_to_do, cur, evt, num, waited, okMails, failMails, unsent, tries,
                   ended, trig, flows>>

Raise == RaiseFor("error")

\* __forgot_password, the first step of every attempt: the cookies are
\* deleted, then the request is made; an exception can come before or after
\* the deletion
ForgotPassword ==
    /\ pc = "forgot"
    /\ subs' = <<>>
    /\ \/ Raise /\ UNCHANGED outbox
       \/ /\ CanMail(cur)
          /\ outbox' = Queue(cur, "link")
          /\ \/ Raise
             \/ /\ pc' = "waitlink"
                /\ waited' = 0
                /\ UNCHANGED <<need_to_do, cur, evt, num, okMails, failMails, unsent,
                               tries, ended, trig, flows, why>>
    /\ jar' \in IF pc' = "waitlink" THEN {delete_all_cookies(jar)}
               ELSE {jar, delete_all_cookies(jar)}
    /\ UNCHANGED <<sideVars, tm, accounts, force, mailbox, pwd, last_id, detVars, lastFetch>>

\* variant: the elapsed time is never found too long
TimeLeftAlways(w) == TRUE

\* the test of the elapsed time after a poll without link: every turn takes
\* its two seconds of sleep at least, so the w-th poll with w = WaitLimit is
\* later than max_wait_reset_mail_time minutes after the start
TimeLeft(w) == w < WaitLimit

\* a fetch made by the reset-link listener: waitEvt keeps the highest ID of a
\* password-changed or forced-reset message it has fetched
NoteWait(a, id) ==
    IF id # 0 /\ EventClass(mailbox[a][id].body) # 0
    THEN [NoteFetch(a, id) EXCEPT ![a].waitEvt = id]
    ELSE NoteFetch(a, id)

\* one turn of the wait loop of __do_reset (the count of polls is kept modulo
\* WaitLimit + 2, a value the time test never lets it reach)
WaitResetLink ==
    /\ pc = "waitlink"
    /\ \/ \* IMAP login or search fails
          /\ RaiseFor("imap")
          /\ UNCHANGED <<mailbox, last_id, lastFetch>>
       \/ \E failed \in SUBSET Fetchable(cur) :
            LET id == fetch_mail(cur, failed)
                o == IF id = 0 THEN "none"
                     ELSE LinkListenerOutcome(mailbox[cur][id].body) IN
            /\ last_id' = set_mail_last_id(cur, id)
            /\ mailbox' = Skipped(cur, set_mail_last_id(cur, id)[cur])
            /\ lastFetch' = NoteWait(cur, id)
            /\ CASE o = "link" ->
                      /\ need_to_do' = FlagOnLink(cur)
                      /\ pc' = "viaMail"
                      /\ UNCHANGED <<cur, evt, num, waited, okMails, failMails, unsent,
                                     tries, ended, trig, flows, why>>
                 [] o = "raise" -> RaiseFor("nourl")
                 [] OTHER ->
                      \/ \* more than max_wait_reset_mail_time minutes
                         RaiseFor("timeout")
                      \/ /\ TimeLeft(waited)
                         /\ waited' = (waited + 1) % (WaitLimit + 2)
                         /\ UNCHANGED <<need_to_do, pc, cur, evt, num, okMails,
                                        failMails, unsent, tries, ended, trig, flows, why>>
    /\ UNCHANGED <<sideVars, jar, tm, accounts, force, outbox, pwd, detVars, subs>>

\* the provider accepts a password change and queues its confirmation
Accept(a, p) ==
    /\ CanMail(a)
    /\ pwd' = [pwd EXCEPT ![a] = p]
    /\ outbox' = Queue(a, "echo")

GoOn(next) ==
    /\ pc' = next
    /\ UNCHANGED <<need_to_do, cur, evt, num, waited, okMails, failMails, unsent, tries,
                   ended, trig, flows, why>>

\* what follows a verified return of __do_reset in the try block
AfterDoReset == IF evt = 1 THEN Recovered ELSE GoOn("inAcct")

\* __pwd_change_result: True when the wait saw the confirmation URL, an
\* exception (FALSE here) otherwise
pwd_change_result(reached) == reached

\* variant: current and new password of the fallback's change are swapped
FallbackArgsSwapped(e) == [old |-> LinkResetPwd(e), new |-> "rnd13"]

\* __reset_password(random_pwd, new_netflix_password) of the fallback
FallbackArgs(e) == [old |-> "rnd13", new |-> LinkResetPwd(e)]

\* variant: current and new password of the in-account change are swapped
ForcedArgsSwapped(e) == [old |-> "orig", new |-> LinkResetPwd(e)]

\* __reset_password(random_pwd, p) of event type 2
ForcedArgs(e) == [old |-> LinkResetPwd(e), new |-> "orig"]

\* one recorded submission: the step that made it, the form used, the current
\* password typed (in-account form only), the new password, and the result
\* ("ok": confirmation URL reached, "lost": accepted but the URL was not
\* reached in time, "refused": not accepted)
Sub(step, via, old, new, res) ==
    [step |-> step, via |-> via, old |-> old, new |-> new, res |-> res]

\* a submission the provider accepts, followed by __pwd_change_result
Submitted(step, via, old, new, Then) ==
    /\ Accept(cur, new)
    /\ \E reached \in BOOLEAN :
         /\ subs' = Append(subs, Sub(step, via, old, new,
                                     IF reached THEN "ok" ELSE "lost"))
         /\ IF pwd_change_result(reached) THEN Then ELSE Raise

\* an in-account change: the provider accepts it only with the right current
\* password; otherwise the confirmation page is never reached
InAccount(step, args, Then) ==
    \/ Raise /\ UNCHANGED <<pwd, outbox, subs>>
    \/ /\ pwd[cur] = args.old
       /\ Submitted(step, "account", args.old, args.new, Then)
    \/ /\ pwd[cur] # args.old
       /\ subs' = Append(subs, Sub(step, "account", args.old, args.new, "refused"))
       /\ Raise
       /\ UNCHANGED <<pwd, outbox>>

\* __reset_password_via_mail up to its first submission: the cookies are
\* deleted and the reset link is opened, which starts a session of the
\* account the link belongs to
ResetViaMail ==
    /\ pc = "viaMail"
    /\ \/ Raise /\ UNCHANGED <<pwd, outbox, subs>>
       \/ Submitted("viaMail", "link", "none", LinkResetPwd(evt), AfterDoReset)
       \/ \* the provider refuses the password as used before
          /\ GoOn("fbRandom")
          /\ subs' = Append(subs, Sub("viaMail", "link", "none",
                                      LinkResetPwd(evt), "refused"))
          /\ UNCHANGED <<pwd, outbox>>
    /\ jar' \in IF subs' # subs
               THEN {IF delete_all_cookies(jar) = NoAccount THEN cur ELSE jar}
               ELSE {jar, delete_all_cookies(jar)}
    /\ UNCHANGED <<sideVars, tm, accounts, force, mailbox, last_id, detVars, lastFetch>>

\* the random password submitted on the reset page after the refusal
FallbackRandom ==
    /\ pc = "fbRandom"
    /\ \/ Raise /\ UNCHANGED <<pwd, outbox, subs>>
       \/ Submitted("fbRandom", "link", "none", "rnd13", GoOn("fbInAcct"))
    /\ UNCHANGED <<sideVars, jar, tm, accounts, force, mailbox, last_id, detVars, lastFetch>>

\* __reset_password(random_pwd, new_netflix_password) ending the fallback
FallbackInAccount ==
    /\ pc = "fbInAcct"
    /\ InAccount("fbInAcct", FallbackArgs(evt), AfterDoReset)
    /\ UNCHANGED <<sideVars, jar, tm, accounts, force, mailbox, last_id, detVars, lastFetch>>

\* __reset_password(random_pwd, p) of event type 2
InAccountChange ==
    /\ pc = "inAcct"
    /\ InAccount("inAcct", ForcedArgs(evt), Recovered)
    /\ UNCHANGED <<sideVars, jar, tm, accounts, force, mailbox, last_id, detVars, lastFetch>>

\* the except clause (log, screenshot) and the finally clause after it
HandleFailure ==
    /\ pc = "failed"
    /\ \E shot1 \in BOOLEAN, shot2 \in BOOLEAN :
         LoopTail(FALSE, ~shot1, need_to_do, shot2, unsent)
    /\ UNCHANGED <<sideVars, jar, tm, accounts, force, envVars, last_id, detVars, lastFetch,
                   cur, evt, waited, okMails, trig, subs>>

\* ----------------------------------------------------------- handle_event
\* no call of handle_event is under way
HeIdle == [pc |-> "idle", max |-> 0, num |-> 0, calls |-> 0, slept |-> 0,
           el |-> FALSE, url |-> FALSE, txt |-> FALSE]

\* the values max_num_of_attempts is given: the default and the one of
\* __forgot_password
HeMax == {10, 12}

\* variant: the address of the page is not looked at
has_unknown_error_alert_text_only(el, url, txt) == el /\ ~txt

\* has_unknown_error_alert: el, the message element is visible and not empty;
\* url, the address contains YourAccount?confirm=password; txt, the element's
\* text contains "Your password has been changed"
has_unknown_error_alert(el, url, txt) == el /\ ~(url \/ txt)

\* handle_event is entered: func() is called once, num = 0
HandleEventStart ==
    /\ he.pc # "check"
    /\ \E mx \in HeMax :
         he' = [HeIdle EXCEPT !.pc = "check", !.max = mx]
    /\ UNCHANGED <<runVars, rx, ag, pa, rt>>

\* one turn of the while loop: the page is looked at; with the error message
\* func() is called again, then the bound is tested, num is incremented and
\* the thread sleeps num seconds; without it the loop is left
HandleEventTurn ==
    /\ he.pc = "check"
    /\ \E el \in BOOLEAN, url \in BOOLEAN, txt \in BOOLEAN :
         IF has_unknown_error_alert(el, url, txt)
         THEN IF he.num >= he.max
              THEN he' = [he EXCEPT !.pc = "raised", !.calls = @ + 1,
                                    !.el = el, !.url = url, !.txt = txt]
              ELSE he' = [he EXCEPT !.calls = @ + 1, !.num = @ + 1,
                                    !.slept = he.num + 1,
                                    !.el = el, !.url = url, !.txt = txt]
         ELSE he' = [he EXCEPT !.pc = "done",
                               !.el = el, !.url = url, !.txt = txt]
    /\ UNCHANGED <<runVars, rx, ag, pa, rt>>

\* ------------------------------------------------- catch_exception around run
\* run() is running: nothing has left it
RxNone == [kind |-> "none", logged |-> FALSE, pending |-> FALSE, quits |-> 0]

\* what can leave run(): the classes the wrapper names, any other Exception,
\* and a BaseException that is no Exception (KeyboardInterrupt, SystemExit)
ExcKinds == {"AssertionError", "NoSuchElementException", "TimeoutException",
             "WebDriverException", "Exception", "BaseException"}

\* an exception leaves run(): from the statements of the while loop that are
\* outside the try of the as_completed loop, or an interrupt
RunRaises ==
    /\ pc \in {"submit", "collect"}
    /\ \E k \in ExcKinds :
         rx' = [kind |-> k, logged |-> FALSE, pending |-> TRUE, quits |-> 0]
    /\ pc' = "except"
    /\ UNCHANGED <<he, ag, pa, jar, tm, rt, accounts, force, envVars, redisVars, detVars, lastFetch,
                   incVars>>

\* the except clauses of the wrapper: none matches a BaseException; the one
\* of TimeoutException reads driver.current_url for its message, a browser
\* command that can raise in its turn; the others log
ExceptClause ==
    /\ pc = "except"
    /\ IF rx.kind = "BaseException"
       THEN rx' = rx
       ELSE IF rx.kind = "TimeoutException"
            THEN \E urlRead \in BOOLEAN :
                   rx' = [rx EXCEPT !.logged = urlRead, !.pending = ~urlRead]
            ELSE rx' = [rx EXCEPT !.logged = TRUE, !.pending = FALSE]
    /\ pc' = "finally"
    /\ UNCHANGED <<he, ag, pa, jar, tm, rt, accounts, force, envVars, redisVars, detVars, lastFetch,
                   incVars>>

\* the finally clause: driver.quit(); an exception still pending goes on to
\* the caller of run()
FinallyClause ==
    /\ pc = "finally"
    /\ rx' = [rx EXCEPT !.quits = @ + 1]
    /\ pc' = "exit"
    /\ UNCHANGED <<he, ag, pa, jar, tm, rt, accounts, force, envVars, redisVars, detVars, lastFetch,
                   incVars>>

\* ------------------------------------------------------------ account guard
\* the five profiles of an account
Profiles == 1 .. 5

\* no profile loop is under way
AgIdle == [op |-> "none", pc |-> "idle", index |-> 1, visited |-> {},
           errs |-> {}, events_count |-> 0, success_num |-> 0]

\* __handle_account_lock or __handle_account_name is called
GuardStart ==
    /\ ag.pc # "loop"
    /\ \E op \in {"lock", "name"} :
         ag' = [AgIdle EXCEPT !.op = op, !.pc = "loop"]
    /\ UNCHANGED <<runVars, he, rx, pa, rt>>

\* the loop goes on to the next profile, or ends after the fifth
AgNext(r) ==
    IF r.index = 5 THEN [r EXCEPT !.pc = "returned"]
    ELSE [r EXCEPT !.index = @ + 1]

\* one iteration of "for index in range(1, 6)" of __handle_account_lock: the
\* whole body is inside try/except, so the next profile follows whatever
\* happens; __unlock_account returns False when it fails
LockProfile ==
    /\ ag.pc = "loop" /\ ag.op = "lock"
    /\ LET r == [ag EXCEPT !.visited = @ \cup {ag.index}] IN
       \E o \in {"normal", "unlocked", "unlock_failed", "raise"} :
         ag' = AgNext(
                 IF o = "raise" THEN [r EXCEPT !.errs = @ \cup {ag.index}]
                 ELSE IF o = "unlocked"
                      THEN [r EXCEPT !.events_count = @ + 1, !.success_num = @ + 1]
                 ELSE IF o = "unlock_failed"
                      THEN [r EXCEPT !.events_count = @ + 1,
                                     !.errs = @ \cup {ag.index}]
                 ELSE r)
    /\ UNCHANGED <<runVars, he, rx, pa, rt>>

\* one iteration of "for index in range(5)" of __handle_account_name: the
\* try is around the whole loop, so an exception of the loop body (the lookup
\* of the profile link, the read of its text) ends the loop: it is logged and
\* u is returned; __recover_name catches its own exceptions and returns False
NameProfile ==
    /\ ag.pc = "loop" /\ ag.op = "name"
    /\ LET r == [ag EXCEPT !.visited = @ \cup {ag.index}] IN
       \E o \in {"same", "recovered", "recover_failed", "raise"} :
         ag' = IF o = "raise"
               THEN [r EXCEPT !.errs = @ \cup {ag.index}, !.pc = "returned"]
               ELSE AgNext(
                      IF o = "recovered"
                      THEN [r EXCEPT !.events_count = @ + 1, !.success_num = @ + 1]
                      ELSE IF o = "recover_failed"
                           THEN [r EXCEPT !.events_count = @ + 1,
                                          !.errs = @ \cup {ag.index}]
                      ELSE r)
    /\ UNCHANGED <<runVars, he, rx, pa, rt>>

\* -------------------------------------------------------------------- retry
\* no wrapped call is under way
RtIdle == [pc |-> "idle", max |-> 0, cls |-> FALSE, retries |-> 0, calls |-> 0,
           slept |-> 0, last |-> "none", wraps |-> "none"]

\* values of max_retries: clear_browser_data uses 5
RetryMax == 0 .. 5

\* variant: one more failure is allowed before giving up
RetryExhaustedLate(r, m) == r > m + 1

\* "if retries > max_retries"
RetryExhausted(r, m) == r > m

\* the wrapped function is called: retries = 0; cls tells whether
\* uncaught_exception_cls is given
RetryStart ==
    /\ rt.pc # "call"
    /\ \E m \in RetryMax, c \in BOOLEAN :
         rt' = [RtIdle EXCEPT !.pc = "call", !.max = m, !.cls = c]
    /\ UNCHANGED <<runVars, he, rx, ag, pa>>

\* one turn of the while loop: func() returns, or raises an exception of
\* uncaught_exception_cls ("E1"), or another one ("E2")
RetryCall ==
    /\ rt.pc = "call"
    /\ \E o \in {"ok", "E1", "E2"} :
         LET r == [rt EXCEPT !.calls = @ + 1] IN
         IF o = "ok"
         THEN rt' = [r EXCEPT !.pc = "returned"]
         ELSE IF rt.cls /\ o = "E1"
              THEN rt' = [r EXCEPT !.pc = "reraised", !.last = o]
              ELSE IF RetryExhausted(rt.retries + 1, rt.max)
                   THEN rt' = [r EXCEPT !.pc = "raised", !.retries = @ + 1,
                                        !.last = o, !.wraps = o]
                   ELSE rt' = [r EXCEPT !.retries = @ + 1, !.last = o,
                                        !.slept = 2 * (rt.retries + 1)]
    /\ UNCHANGED <<runVars, he, rx, ag, pa>>

\* ----------------------------------------------------------- protect_account
\* MULTIPLE_NETFLIX_ACCOUNTS in the order of the configuration
AccountList == <<"a1", "a2">>

\* protect_account is not running
PaIdle == [pc |-> "idle", todo |-> <<>>, visited |-> {}, failed |-> {}]

\* variant: only the UserWarning of a login under risk control is caught
protect_except_warning_only(o) == IF o = "UserWarning" THEN "next" ELSE "raise"

\* the except clauses around the pipeline of one account: UserWarning is
\* logged at debug level, any other Exception as a warning; the for loop goes
\* on with the next account
protect_except(o) == IF o \in {"UserWarning", "Exception"} THEN "next" ELSE "raise"

\* the account at the head of todo is over: with outcome "ok" after _logout,
\* otherwise through the except clauses
PaDone(o) ==
    LET a == Head(pa.todo)
        r == [pa EXCEPT !.visited = @ \cup {a},
                        !.failed = IF o = "ok" THEN @ ELSE @ \cup {a}]
    IN IF o # "ok" /\ protect_except(o) = "raise"
       THEN [r EXCEPT !.pc = "raised"]
       ELSE IF Len(pa.todo) = 1
            THEN [r EXCEPT !.pc = "returned", !.todo = <<>>]
            ELSE [r EXCEPT !.pc = "login", !.todo = Tail(@)]

\* protect_account is called: the for loop starts with the first account
ProtectStart ==
    /\ pa.pc \in {"idle", "returned"}
    /\ pa' = [PaIdle EXCEPT !.pc = "login", !.todo = AccountList]
    /\ UNCHANGED <<runVars, he, rx, ag, rt>>

\* _login, first step of the pipeline: it raises UserWarning when the error
\* message shows after the click, any other exception when a browser command
\* fails; otherwise __handle_account_lock follows
ProtectLogin ==
    /\ pa.pc = "login"
    /\ \E o \in {"ok", "UserWarning", "Exception"} :
         IF o = "ok"
         THEN /\ pa' = [pa EXCEPT !.pc = "lock"]
              /\ ag' = [AgIdle EXCEPT !.op = "lock", !.pc = "loop"]
         ELSE /\ pa' = PaDone(o)
              /\ ag' = ag
    /\ UNCHANGED <<runVars, he, rx, rt>>

\* __handle_account_lock has returned (u, n): __handle_account_name follows
ProtectName ==
    /\ pa.pc = "lock" /\ ag.op = "lock" /\ ag.pc = "returned"
    /\ pa' = [pa EXCEPT !.pc = "name"]
    /\ ag' = [AgIdle EXCEPT !.op = "name", !.pc = "loop"]
    /\ UNCHANGED <<runVars, he, rx, rt>>

\* __handle_account_name has returned u: _logout follows, which catches its
\* own exceptions and returns a boolean
ProtectLogout ==
    /\ pa.pc = "name" /\ ag.op = "name" /\ ag.pc = "returned"
    /\ \E out \in BOOLEAN : pa' = PaDone("ok")
    /\ ag' = AgIdle
    /\ UNCHANGED <<runVars, he, rx, rt>>

\* ------------------------------------------------------------ specification
Init ==
    /\ accounts = {"a1"}
    /\ force \in BOOLEAN
    /\ mailbox = [a \in AllAccounts |-> <<>>]
    /\ outbox = [a \in AllAccounts |-> [link |-> 0, echo |-> 0]]
    /\ pwd = [a \in AllAccounts |-> "orig"]
    /\ last_id = [a \in AllAccounts |-> NoKey]
    /\ need_to_do = [a \in AllAccounts |-> NoKey]
    /\ first_time = {}
    /\ task = [a \in AllAccounts |-> "idle"]
    /\ result = [a \in AllAccounts |-> 0]
    /\ pc = "submit"
    /\ cur = NoAccount
    /\ evt = 0
    /\ num = 1
    /\ waited = 0
    /\ okMails = 0
    /\ failMails = 0
    /\ unsent = 0
    /\ tries = 0
    /\ ended = "no"
    /\ lastDet = [a \in AllAccounts |->
                    [cls |-> 0, flag |-> NoKey, verdict |-> "none",
                     origin |-> "other", after |-> FALSE, swallow |-> FALSE, ignored |-> 0,
                     seenAt |-> NoKey, late |-> FALSE,
                     forced |-> FALSE]]
    /\ lastFetch = [a \in AllAccounts |-> [before |-> 0, id |-> 0, prevMax |-> 0, waitEvt |-> 0]]
    /\ trig = "other"
    /\ subs = <<>>
    /\ flows = [a \in AllAccounts |-> 0]
    /\ why = "none"
    /\ he = HeIdle
    /\ rx = RxNone
    /\ ag = AgIdle
    /\ pa = PaIdle
    /\ rt = RtIdle
    /\ jar = NoAccount
    /\ tm = TmOff

Next ==
    \/ \E a \in AllAccounts : Deliver(a)
    \/ \E a \in AllAccounts : ThirdPartyChange(a)
    \/ \E a \in AllAccounts : ProviderForce(a)
    \/ \E a \in AllAccounts : UnrelatedMail(a)
    \/ SubmitRound
    \/ \E a \in AllAccounts : pwd_result_mail_listener(a)
    \/ \E a \in AllAccounts : Collect(a)
    \/ PrepareBrowser
    \/ ForgotPassword
    \/ WaitResetLink
    \/ ResetViaMail
    \/ FallbackRandom
    \/ FallbackInAccount
    \/ InAccountChange
    \/ HandleFailure
    \/ NextRound

Spec == Init /\ [][Next]_vars

\* the same program configured with two accounts (MULTIPLE_NETFLIX_ACCOUNTS)
\* and started with --force
Init2 ==
    /\ accounts = AllAccounts
    /\ force = TRUE
    /\ mailbox = [a \in AllAccounts |-> <<>>]
    /\ outbox = [a \in AllAccounts |-> [link |-> 0, echo |-> 0]]
    /\ pwd = [a \in AllAccounts |-> "orig"]
    /\ last_id = [a \in AllAccounts |-> NoKey]
    /\ need_to_do = [a \in AllAccounts |-> NoKey]
    /\ first_time = {}
    /\ task = [a \in AllAccounts |-> "idle"]
    /\ result = [a \in AllAccounts |-> 0]
    /\ pc = "submit"
    /\ cur = NoAccount
    /\ evt = 0
    /\ num = 1
    /\ waited = 0
    /\ okMails = 0
    /\ failMails = 0
    /\ unsent = 0
    /\ tries = 0
    /\ ended = "no"
    /\ lastDet = [a \in AllAccounts |->
                    [cls |-> 0, flag |-> NoKey, verdict |-> "none",
                     origin |-> "other", after |-> FALSE, swallow |-> FALSE,
                     ignored |-> 0, seenAt |-> NoKey, late |-> FALSE,
                     forced |-> FALSE]]
    /\ lastFetch = [a \in AllAccounts |-> [before |-> 0, id |-> 0, prevMax |-> 0, waitEvt |-> 0]]
    /\ trig = "other"
    /\ subs = <<>>
    /\ flows = [a \in AllAccounts |-> 0]
    /\ why = "none"
    /\ he = HeIdle
    /\ rx = RxNone
    /\ ag = AgIdle
    /\ pa = PaIdle
    /\ rt = RtIdle
    /\ jar = NoAccount
    /\ tm = TmOff

\* two accounts, the malicious path only: what happens to one account's mail is
\* explored under Spec, here the two accounts' polls and flows are interleaved
Next2 ==
    \/ \E a \in AllAccounts : Deliver(a)
    \/ \E a \in AllAccounts : ThirdPartyChange(a)
    \/ SubmitRound
    \/ \E a \in AllAccounts : pwd_result_mail_listener(a)
    \/ \E a \in AllAccounts : Collect(a)
    \/ PrepareBrowser
    \/ ForgotPassword
    \/ WaitResetLink
    \/ ResetViaMail
    \/ FallbackRandom
    \/ FallbackInAccount
    \/ HandleFailure
    \/ NextRound

Spec2 == Init2 /\ [][Next2]_vars

\* The program meeting a message of any content. Markers are the patterns the
\* classifier knows; the initial states are those in which one message has been
\* seen before and a second one, with any set of markers, has just arrived:
\* either a round is about to poll it, or an attempt is waiting for its link.
Markers == {"URL_YOUR_ACCOUNT", "URL_LOGIN_HELP", "URL_ACCOUNT_ACCESS",
            "URL_PASSWORD"}

AnyMail == [body : SUBSET Markers, origin : {"other"}]

InitM ==
    /\ accounts = {"a1"}
    /\ force \in BOOLEAN
    /\ \E m \in AnyMail :
         mailbox = [a \in AllAccounts |-> IF a = "a1" THEN <<OtherMail, m>> ELSE <<>>]
    /\ outbox = [a \in AllAccounts |-> [link |-> 0, echo |-> 0]]
    /\ last_id = [a \in AllAccounts |-> IF a = "a1" THEN 1 ELSE NoKey]
    /\ \E f \in {0, 1} :
         need_to_do = [a \in AllAccounts |-> IF a = "a1" THEN f ELSE NoKey]
    /\ first_time \in SUBSET {"a1"}
    /\ lastDet = [a \in AllAccounts |->
                    [cls |-> 0, flag |-> NoKey, verdict |-> "none",
                     origin |-> "other", after |-> FALSE, swallow |-> FALSE,
                     ignored |-> 0, seenAt |-> IF a = "a1" THEN 0 ELSE NoKey,
                     late |-> FALSE, forced |-> FALSE]]
    /\ lastFetch = [a \in AllAccounts |->
                      [before |-> 0, id |-> IF a = "a1" THEN 1 ELSE 0, prevMax |-> 0,
                       waitEvt |-> 0]]
    /\ num = 1
    /\ waited = 0
    /\ okMails = 0
    /\ failMails = 0
    /\ unsent = 0
    /\ ended = "no"
    /\ subs = <<>>
    /\ why = "none"
    /\ he = HeIdle
    /\ rx = RxNone
    /\ ag = AgIdle
    /\ pa = PaIdle
    /\ rt = RtIdle
    /\ jar = NoAccount
    /\ tm = TmOff
    /\ \/ \* the detection future of the round is queued
          /\ pc = "collect"
          /\ task = [a \in AllAccounts |-> IF a = "a1" THEN "queued" ELSE "idle"]
          /\ result = [a \in AllAccounts |-> 0]
          /\ pwd = [a \in AllAccounts |-> "orig"]
          /\ cur = NoAccount
          /\ evt = 0
          /\ tries = 0
          /\ trig = "other"
          /\ flows = [a \in AllAccounts |-> 0]
       \/ \* the first attempt of an incident has asked for the link
          \E e \in {1, 2} :
            /\ pc = "waitlink"
            /\ task = [a \in AllAccounts |-> IF a = "a1" THEN "handled" ELSE "idle"]
            /\ result = [a \in AllAccounts |-> IF a = "a1" THEN e ELSE 0]
            /\ pwd = [a \in AllAccounts |->
                       IF a = "a1" /\ e = 1 THEN "evil" ELSE "orig"]
            /\ cur = "a1"
            /\ evt = e
            /\ tries = 1
            /\ trig = IF e = 1 THEN "third" ELSE "provider"
            /\ flows = [a \in AllAccounts |-> IF a = "a1" THEN 1 ELSE 0]

\* the program's steps and the delivery of the provider's answers; the message
\* of the initial state is the only mail from elsewhere
NextM ==
    \/ \E a \in AllAccounts : Deliver(a)
    \/ SubmitRound
    \/ \E a \in AllAccounts : pwd_result_mail_listener(a)
    \/ \E a \in AllAccounts : Collect(a)
    \/ PrepareBrowser
    \/ ForgotPassword
    \/ WaitResetLink
    \/ ResetViaMail
    \/ FallbackRandom
    \/ FallbackInAccount
    \/ InAccountChange
    \/ HandleFailure
    \/ NextRound

SpecM == InitM /\ [][NextM]_vars

\* the main thread inside the wait loop keeps running: a poll that is possible
\* is made
SpecW == InitM /\ [][NextM]_vars /\ WF_vars(WaitResetLink)

\* Two accounts when the program starts with --force: the mailbox of the first
\* one, or of both, holds the notice of a password changed by somebody else; no
\* further change is made from outside. The main thread and the pool threads keep running.
InitC ==
    /\ accounts = AllAccounts
    /\ force = TRUE
    /\ \E hit \in {{"a1"}, AllAccounts} :
         /\ mailbox = [a \in AllAccounts |-> IF a \in hit THEN <<ThirdMail>> ELSE <<>>]
         /\ pwd = [a \in AllAccounts |-> IF a \in hit THEN "evil" ELSE "orig"]
    /\ outbox = [a \in AllAccounts |-> [link |-> 0, echo |-> 0]]
    /\ last_id = [a \in AllAccounts |-> NoKey]
    /\ need_to_do = [a \in AllAccounts |-> NoKey]
    /\ first_time = {}
    /\ task = [a \in AllAccounts |-> "idle"]
    /\ result = [a \in AllAccounts |-> 0]
    /\ pc = "submit"
    /\ cur = NoAccount
    /\ evt = 0
    /\ num = 1
    /\ waited = 0
    /\ okMails = 0
    /\ failMails = 0
    /\ unsent = 0
    /\ tries = 0
    /\ ended = "no"
    /\ lastDet = [a \in AllAccounts |->
                    [cls |-> 0, flag |-> NoKey, verdict |-> "none",
                     origin |-> "other", after |-> FALSE, swallow |-> FALSE,
                     ignored |-> 0, seenAt |-> NoKey, late |-> FALSE,
                     forced |-> FALSE]]
    /\ lastFetch = [a \in AllAccounts |-> [before |-> 0, id |-> 0, prevMax |-> 0, waitEvt |-> 0]]
    /\ trig = "other"
    /\ subs = <<>>
    /\ flows = [a \in AllAccounts |-> 0]
    /\ why = "none"
    /\ he = HeIdle
    /\ rx = RxNone
    /\ ag = AgIdle
    /\ pa = PaIdle
    /\ rt = RtIdle
    /\ jar = NoAccount
    /\ tm = TmOff

\* the steps of the main thread in run()
MainThread ==
    \/ SubmitRound
    \/ \E a \in AllAccounts : Collect(a)
    \/ PrepareBrowser
    \/ ForgotPassword
    \/ WaitResetLink
    \/ ResetViaMail
    \/ FallbackRandom
    \/ FallbackInAccount
    \/ HandleFailure
    \/ NextRound

NextC ==
    \/ \E a \in AllAccounts : Deliver(a)
    \/ \E a \in AllAccounts : pwd_result_mail_listener(a)
    \/ MainThread

\* the main thread is never blocked for ever (every wait of the loop body has
\* a time limit) and every submitted future is run by a pool thread
SpecC ==
    /\ InitC /\ [][NextC]_vars
    /\ WF_vars(MainThread)
    /\ \A a \in AllAccounts : WF_vars(pwd_result_mail_listener(a))

\* run() with no incident, left by an exception at any point of a round
NextX ==
    \/ \E a \in AllAccounts : UnrelatedMail(a)
    \/ SubmitRound
    \/ \E a \in AllAccounts : pwd_result_mail_listener(a)
    \/ \E a \in AllAccounts : Collect(a)
    \/ NextRound
    \/ RunRaises
    \/ ExceptClause
    \/ FinallyClause

SpecX == Init /\ [][NextX]_vars

\* the two profile loops of the account guard on their own, with whatever
\* each profile does
NextG ==
    \/ GuardStart
    \/ LockProfile
    \/ NameProfile

SpecG == Init /\ [][NextG]_vars

\* Two accounts, both with the notice of a password changed by somebody else,
\* and account protection enabled or not (ENABLE_ACCOUNT_PROTECTION): rounds, recovery flows and, at the end of a
\* round when it is due, protect_account share the one browser.
InitB ==
    /\ accounts = AllAccounts
    /\ force = TRUE
    /\ \E hit \in {AllAccounts} :
         /\ mailbox = [a \in AllAccounts |-> IF a \in hit THEN <<ThirdMail>> ELSE <<>>]
         /\ pwd = [a \in AllAccounts |-> IF a \in hit THEN "evil" ELSE "orig"]
    /\ outbox = [a \in AllAccounts |-> [link |-> 0, echo |-> 0]]
    /\ last_id = [a \in AllAccounts |-> NoKey]
    /\ need_to_do = [a \in AllAccounts |-> NoKey]
    /\ first_time = {}
    /\ task = [a \in AllAccounts |-> "idle"]
    /\ result = [a \in AllAccounts |-> 0]
    /\ pc = "submit"
    /\ cur = NoAccount
    /\ evt = 0
    /\ num = 1
    /\ waited = 0
    /\ okMails = 0
    /\ failMails = 0
    /\ unsent = 0
    /\ tries = 0
    /\ ended = "no"
    /\ lastDet = [a \in AllAccounts |->
                    [cls |-> 0, flag |-> NoKey, verdict |-> "none",
                     origin |-> "other", after |-> FALSE, swallow |-> FALSE,
                     ignored |-> 0, seenAt |-> NoKey, late |-> FALSE,
                     forced |-> FALSE]]
    /\ lastFetch = [a \in AllAccounts |-> [before |-> 0, id |-> 0, prevMax |-> 0, waitEvt |-> 0]]
    /\ trig = "other"
    /\ subs = <<>>
    /\ flows = [a \in AllAccounts |-> 0]
    /\ why = "none"
    /\ he = HeIdle
    /\ rx = RxNone
    /\ ag = AgIdle
    /\ pa = PaIdle
    /\ rt = RtIdle
    /\ jar = NoAccount
    /\ \E on \in BOOLEAN : tm = [TmOff EXCEPT !.enabled = on]

SpecB == InitB /\ [][NextC]_vars

\* protect_account on its own, for two configured accounts
NextP ==
    \/ ProtectStart
    \/ ProtectLogin
    \/ LockProfile
    \/ ProtectName
    \/ NameProfile
    \/ ProtectLogout

SpecP == Init2 /\ [][NextP]_vars

\* a function wrapped by retry on its own, with any bound and any outcomes
NextR ==
    \/ RetryStart
    \/ RetryCall

SpecR == Init /\ [][NextR]_vars

\* handle_event on its own, called again and again with either bound and
\* whatever the page shows
NextH ==
    \/ HandleEventStart
    \/ HandleEventTurn

SpecH == Init /\ [][NextH]_vars

\* ------------------------------------------------------------------ claims
Watermark(a) == get_mail_last_id(a)

\* a detection future of account a that fetched a message in this step
DetectedStep(a) ==
    /\ task[a] = "queued"
    /\ task'[a] = "done"
    /\ last_id'[a] # last_id[a]

\* C1: the watermark of every account never decreases, and every fetch that
\* returns a message leaves the watermark strictly greater than it was (and
\* equal to the returned ID).
C1_WatermarkMonotone ==
    [][\A a \in AllAccounts :
          /\ last_id'[a] # NoKey => last_id'[a] >= Watermark(a)
          /\ last_id[a] # NoKey => last_id'[a] # NoKey
          /\ lastFetch'[a] # lastFetch[a] =>
                /\ last_id'[a] > Watermark(a)
                /\ last_id'[a] = lastFetch'[a].id]_vars

\* a fetch returned a message although the watermark was already above 0
C1_Witness == lastFetch["a1"].before > 0 /\ lastFetch["a1"].id > lastFetch["a1"].before

\* C2: no message is returned twice: every returned ID is greater than every
\* ID returned before for the same account, whichever listener polls.
C2_NoMessageTwice ==
    \A a \in AllAccounts :
        lastFetch[a].id # 0 => lastFetch[a].id > lastFetch[a].prevMax

\* the reset-link listener has just fetched the link after detection had
\* fetched an earlier message of the same account
C2_Witness == pc = "viaMail" /\ lastFetch["a1"].prevMax > 0

\* C3: a password-changed mail classified while need_to_do = 0 yields no
\* incident, starts no recovery and sets need_to_do to 1; without the flag a
\* password-changed mail is not swallowed, so one set swallows one mail.
C3_SwallowOnce ==
    [][/\ \A a \in AllAccounts :
             (DetectedStep(a) /\ lastDet'[a].cls = 1) =>
                 IF is_need_to_do(a) = 0
                 THEN /\ result'[a] = 0
                      /\ need_to_do'[a] = 1
                      /\ lastDet'[a].verdict = "swallowed"
                 ELSE lastDet'[a].verdict # "swallowed"
       /\ \A a \in AllAccounts :
             (pc = "collect" /\ pc' = "prep" /\ task'[a] # task[a]) =>
                 result[a] \in {1, 2}]_vars

\* a mail has been swallowed and the flag is cleared
C3_Witness == lastDet["a1"].verdict = "swallowed" /\ need_to_do["a1"] = 1

\* C4: a password-changed mail classified with need_to_do = 1 after an earlier
\* one was swallowed starts a new incident.
C4_SecondOccurrenceTriggers ==
    \A a \in AllAccounts :
        (lastDet[a].cls = 1 /\ lastDet[a].flag = 1 /\ lastDet[a].after)
            => lastDet[a].verdict = "incident"

\* C5: every swallowed password-changed mail is an echo of a password change
\* the program made itself; a third party's change is never swallowed.
C5_OnlyEchoesSwallowed ==
    \A a \in AllAccounts :
        lastDet[a].verdict = "swallowed" => lastDet[a].origin = "self"

\* C6: no confirmation mail caused by the program's own password change
\* starts a new incident.
C6_NoSelfTriggeredIncident ==
    (cur # NoAccount /\ evt = 1) => trig # "self"

\* C7: whenever a password is about to be submitted through a reset link (the
\* first submission or the random one after a refusal), need_to_do is 0.
C7_FlagBeforeSubmission ==
    pc \in {"viaMail", "fbRandom"} => is_need_to_do(cur) = 0

\* the link submission was made and accepted with the flag set
C7_Witness == pc = "inAcct" /\ pwd[cur] = "rnd8" /\ is_need_to_do(cur) = 0

\* C8: in the step that sends the success notification, the provider holds
\* the original password for the account.
C8_RecoveredMeansOriginal ==
    [][okMails' > okMails => pwd'[cur] = "orig"]_vars

\* incidents of event type 2 and of event type 1 have ended as recovered
C8_Witness == okMails = 1 /\ ended = "recovered" /\ evt = 2

\* C9: an incident whose attempts all failed made exactly max_num_of_attempts
\* attempts and sent exactly one failure notification.
C9_ExactlyMaxAttempts ==
    (ended # "no" /\ okMails = 0 /\ tries >= 1)
        => (tries = max_num_of_attempts /\ failMails = 1)

\* C10: an incident with a successful attempt sends no failure notification,
\* does not count as exhausted and leaves need_to_do = 0.
C10_SuccessExcludesFailure ==
    (ended # "no" /\ okMails >= 1)
        => (failMails = 0 /\ ended = "recovered" /\ is_need_to_do(cur) = 0)


\* C11: every incident that has left the retry loop was signalled to the
\* operator by a success or a failure notification; none ends silently.
C11_NoSilentEnd ==
    ended # "no" => okMails + failMails >= 1

\* C12: when an incident has ended without recovery, need_to_do is 1 for its
\* account, so the next password-changed mail is acted on.
C12_RearmedAfterFailure ==
    (ended \in {"exhausted", "error"} /\ okMails = 0) => is_need_to_do(cur) = 1


\* C13: without force the first-run rule ignores at most one password-changed
\* mail per account; with force it ignores none.
C13_FirstRunAtMostOnce ==
    \A a \in AllAccounts :
        /\ lastDet[a].ignored <= 1
        /\ force => lastDet[a].ignored = 0

\* one mail was ignored by the first-run rule and a later one started an
\* incident
C13_Witness ==
    /\ ~force
    /\ lastDet["a1"].ignored = 1
    /\ lastDet["a1"].cls = 1
    /\ lastDet["a1"].verdict = "incident"

\* C14: a password-changed mail that arrives after the account's first
\* successful detection poll, classified with need_to_do = 1, starts an
\* incident and is not ignored as old mail.
C14_SeenAfterFirstPoll ==
    \A a \in AllAccounts :
        (lastDet[a].cls = 1 /\ lastDet[a].late /\ lastDet[a].flag = 1)
            => lastDet[a].verdict = "incident"


LastSub == subs[Len(subs)]

\* C15: on the forced path the in-account change follows the link reset of
\* the same attempt: the first submission of the attempt is the random password
\* on the reset page, the submission just before the in-account change is
\* verified and has set that random password, and the in-account change types
\* it as current password and the original as new one.
C15_LinkResetThenInAccount ==
    /\ pc = "inAcct" => /\ evt = 2
                        /\ subs # <<>>
                        /\ LastSub.res = "ok"
                        /\ LastSub.new = "rnd8"
    /\ \A i \in 1..Len(subs) :
         subs[i].step = "inAcct" =>
             /\ evt = 2
             /\ i > 1
             /\ subs[1].step = "viaMail" /\ subs[1].via = "link"
             /\ subs[1].new = "rnd8"
             /\ subs[i - 1].res = "ok" /\ subs[i - 1].new = "rnd8"
             /\ subs[i].via = "account"
             /\ subs[i].old = "rnd8" /\ subs[i].new = "orig"

\* a forced incident recovered by link reset and in-account change
C15_Witness ==
    /\ evt = 2 /\ okMails = 1
    /\ Len(subs) = 2
    /\ subs[1] = Sub("viaMail", "link", "none", "rnd8", "ok")
    /\ subs[2] = Sub("inAcct", "account", "rnd8", "orig", "ok")

C17_UnverifiedIsRetried ==
    /\ okMails >= 1 => subs # <<>> /\ LastSub.res = "ok"
    /\ \A i \in 1..Len(subs) :
         subs[i].res = "lost" =>
             /\ i = Len(subs)
             /\ \/ pc \in {"failed", "forgot"}
                \/ pc = "collect" /\ ended = "exhausted"


\* the positions of the main thread inside a recovery flow, from the browser
\* preparation to the end of the retry loop
FlowPcs == {"prep", "forgot", "waitlink", "viaMail", "fbRandom", "fbInAcct",
            "inAcct", "failed"}

\* C18: at most one recovery flow is in progress per account and in all, and
\* the browser is used only by the account whose flow that is.
C18_OneFlowAtATime ==
    /\ \A a \in AllAccounts : flows[a] \in {0, 1}
    /\ flows["a1"] + flows["a2"] <= 1
    /\ pc \in FlowPcs <=> cur \in accounts /\ flows[cur] = 1

\* both accounts had an incident in one round: the second flow runs after the
\* first one is over
C18_Witness ==
    /\ pc = "viaMail" /\ cur = "a2" /\ flows["a2"] = 1
    /\ task["a1"] = "handled" /\ result["a1"] = 1

\* C19 as stated: while the flow of account a waits for its reset link, the
\* flow of another account b whose detection returned an incident can start.
C19_OtherFlowCanStart ==
    \A a, b \in AllAccounts :
        (a # b /\ cur = a /\ pc = "waitlink" /\ task[b] = "done"
              /\ result[b] \in {1, 2})
            => ENABLED Collect(b)

\* C19 amended: only the detection polls run in the pool; a flow is entered by
\* the main thread, and only when no flow of any account is in progress.
C19_FlowsOneAfterAnother ==
    [][\A b \in AllAccounts :
          flows'[b] > flows[b] =>
              /\ pc = "collect"
              /\ \A a \in AllAccounts : flows[a] = 0]_vars

\* the flow of a1 waits for its link while the poll of a2, finished in the
\* pool, holds an incident that nobody has taken up
C19_Witness ==
    /\ pc = "waitlink" /\ cur = "a1" /\ flows["a1"] = 1
    /\ task["a2"] = "done" /\ result["a2"] = 1 /\ flows["a2"] = 0

\* C20: the browser works for an account only if this round's detection of
\* that account returned an incident.
C20_BrowserOnlyAfterIncident ==
    /\ pc \in FlowPcs => result[cur] \in {1, 2} /\ task[cur] = "handled"
    /\ \A a \in AllAccounts : result[a] \notin {1, 2} => flows[a] = 0

\* a flow runs for a1 in a round in which the poll of a2 found nothing, and a2
\* has been passed over
C20_Witness ==
    /\ pc = "forgot" /\ cur = "a1"
    /\ task["a2"] = "handled" /\ result["a2"] = 0 /\ flows["a2"] = 0


\* the IDs above the watermark of account a whose FETCH answers OK when the
\* IDs in failed do not
Answering(a, failed) == Fetchable(a) \ failed

\* C21: whatever fetches fail, __fetch_mail returns the greatest ID above the
\* watermark whose fetch succeeds and makes it the watermark; when there is
\* none it returns None and the watermark stays as it is.
C21_NewestAnswering ==
    \A a \in AllAccounts : \A failed \in SUBSET Fetchable(a) :
        LET id == fetch_mail(a, failed)
            ok == Answering(a, failed)
        IN IF ok = {}
           THEN id = 0 /\ set_mail_last_id(a, id) = last_id
           ELSE /\ id \in ok
                /\ \A j \in ok : j <= id
                /\ set_mail_last_id(a, id)[a] = id

\* a fetch has moved the watermark and the next scan has two candidates
C21_Witness ==
    /\ last_id["a1"] >= 1
    /\ lastFetch["a1"].id = last_id["a1"]
    /\ Cardinality(Fetchable("a1")) >= 2


\* C22: a message matching both the password-changed and the forced-reset
\* pattern is handled as event type 1 (cls = 1 tells that the password-changed
\* pattern matched, forced that the other one did): the poll returns type 1 or
\* nothing, never type 2.
C22_BothPatternsIsType1 ==
    \A a \in AllAccounts :
        (task[a] = "done" /\ lastDet[a].cls = 1 /\ lastDet[a].forced) =>
            /\ result[a] \in {0, 1}
            /\ lastDet[a].verdict = "incident" <=> result[a] = 1
            /\ lastDet[a].verdict \in {"incident", "swallowed", "firstrun"}

\* a message with both patterns has started an incident of type 1
C22_Witness ==
    /\ task["a1"] = "done" /\ lastDet["a1"].cls = 1 /\ lastDet["a1"].forced
    /\ result["a1"] = 1

\* the message the reset-link listener fetches in this step, if any
Fetched == IF last_id'[cur] # last_id[cur] THEN {mailbox[cur][last_id'[cur]]} ELSE {}

\* C23: a fetched message with the reset-link marker and without a reset URL
\* makes the listener raise: the wait loop is left for the except clause.
C23_LinkWithoutUrlRaises ==
    [][(pc = "waitlink" /\ \E m \in Fetched :
            is_password_reset_request(m.body) /\ ~RESET_URL_REGEX_search(m.body))
          => pc' = "failed" /\ why' = "nourl"]_vars

\* the attempt has failed on a link mail without URL
C23_Witness == pc = "failed" /\ why = "nourl"


\* C24: the wait for the reset link ends: the link is obtained (the attempt
\* goes on to the reset page) or the attempt fails into the except clause of
\* the retry loop.
C24_WaitEnds == (pc = "waitlink") ~> (pc \in {"viaMail", "failed"})

\* an attempt has failed because the wait took too long
C24_Witness == pc = "failed" /\ why = "timeout" /\ waited = WaitLimit


\* C25: handle_event calls the action again at most max_num_of_attempts times
\* (calls counts the calls after the first one).
C25_AtMostMaxReinvocations == he.calls <= he.max

\* C26: when the page looked at is the confirmation page or shows the success
\* message, handle_event does not call the action again and returns.
C26_NoResubmitAfterSuccess ==
    [][(he.pc = "check" /\ he' # he /\ (he'.url \/ he'.txt))
          => he'.calls = he.calls /\ he'.pc = "done"]_vars

\* the message element was visible on the confirmation page, after the action
\* had been called again at least once, and handle_event returned
C26_Witness ==
    /\ he.pc = "done" /\ he.el /\ he.url /\ ~he.txt
    /\ he.calls >= 1


\* an exception has just been raised for account a in this round: its
\* detection future holds one, or its recovery flow has ended by one
Failing(a) ==
    \/ task[a] = "done" /\ result[a] = -1
    \/ cur = a /\ ended = "error" /\ pc # "submit"

\* C27: after an exception of one account's detection or flow, the other
\* account's finished detection is still taken up in that round (its flow is
\* entered when it found an incident), every round ends only when all futures
\* are handled, and the next round is started.
C27_FailureContained ==
    /\ (\E a \in AllAccounts : Failing(a)) ~> (pc = "submit")
    /\ \A a \in AllAccounts : \A b \in AllAccounts \ {a} :
         (Failing(a) /\ task[b] = "done" /\ result[b] = 1)
            ~> (cur = b /\ pc = "prep")
    /\ [][(pc # "submit" /\ pc' = "submit")
             => \A a \in accounts : task'[a] = "handled"]_vars

\* the flow of a1 has ended by an exception while the detection of a2, which
\* found an incident, is waiting to be taken up
C27_Witness ==
    /\ cur = "a1" /\ ended = "error" /\ pc = "collect"
    /\ task["a2"] = "done" /\ result["a2"] = 1


\* the detection poll of account a has failed in this round: the future holds
\* the exception of the login or of the search
PollFailed(a) == task[a] \in {"done", "handled"} /\ result[a] = -1

\* C28: a detection poll that fails on the mailbox leaves the account's
\* watermark and suppress flag as they were, no recovery flow is entered for
\* that account while the round lasts, and the account's detection is
\* submitted again.
C28_FailedPollIsRetried ==
    /\ [][\A a \in AllAccounts :
            (task[a] = "queued" /\ PollFailed(a)')
               => last_id'[a] = last_id[a] /\ need_to_do'[a] = need_to_do[a]]_vars
    /\ [](\A a \in AllAccounts :
            PollFailed(a) => flows[a] = 0 /\ ~(cur = a /\ pc \in FlowPcs))
    /\ \A a \in AllAccounts : PollFailed(a) ~> (task[a] = "queued")

\* a poll of a1 failed in a round after the one that set its watermark, and
\* the failed future has been taken up
C28_Witness ==
    /\ result["a1"] = -1 /\ task["a1"] = "handled" /\ pc = "collect"
    /\ last_id["a1"] >= 1 /\ need_to_do["a1"] = 0


\* C29: when run() has been left by an exception, driver.quit() has been
\* called exactly once, the exception has been logged and none goes on to the
\* caller.
C29_QuitOnceLoggedNotPropagated ==
    pc = "exit" => rx.quits = 1 /\ rx.logged /\ ~rx.pending

\* C30: a profile loop of the account guard in which a profile raised has
\* still gone through all five profiles when it returns.
C30_AllProfilesExamined ==
    (ag.pc = "returned" /\ ag.errs # {}) => ag.visited = Profiles


\* C31: protect_account never ends by an exception, and when it returns it
\* has gone through every configured account, whatever failed before.
C31_EveryAccountProcessed ==
    /\ pa.pc # "raised"
    /\ pa.pc = "returned" => pa.visited = accounts

\* protect_account has returned after the login of the first account failed
\* and the second account went through the whole pipeline
C31_Witness ==
    /\ pa.pc = "returned"
    /\ pa.failed = {"a1"} /\ pa.visited = {"a1", "a2"}


\* C32: while a recovery flow is past the preparation of the browser, the
\* browser holds no session or the session of the flow's account; a
\* forgot-password request that was made left no cookies; a submission on the
\* reset page is made in the session of the flow's account.
C32_OneAccountInBrowser ==
    /\ [](pc \in (FlowPcs \ {"prep"}) => jar \in {NoAccount, cur})
    /\ [][(pc = "forgot" /\ pc' = "waitlink") => jar' = NoAccount]_vars
    /\ [][(pc = "viaMail" /\ subs' # subs) => jar' = cur]_vars

\* the first attempt of the flow of a2 has run its forgot-password step in
\* a browser without session, after the flow of a1 had set the password of a1
\* back in a session of a1
C32_Witness ==
    /\ pc = "failed" /\ cur = "a2" /\ jar = NoAccount
    /\ tries = 1
    /\ task["a1"] = "handled" /\ pwd["a1"] = "orig"


C34_GuardOnlyBetweenRounds ==
    /\ [](tm.ran => tm.enabled /\ tm.gap >= protection_interval)
    /\ [][(tm'.ran /\ pc # "submit" /\ pc' = "submit")
             => /\ pc = "collect"
                /\ \A a \in accounts : task[a] = "handled" /\ flows[a] = 0]_vars

\* protect_account has run at the end of a round in which the password of a1
\* had been set back
C34_Witness ==
    /\ tm.ran /\ pc = "submit" /\ tm.gap = protection_interval
    /\ pwd["a1"] = "orig"


\* C35: a function wrapped by retry is called at most max_retries + 1 times;
\* after the k-th failure within the bound the wrapper has slept 2 * k
\* seconds; it gives up at failure max_retries + 1 with an exception wrapping
\* that last error; an exception of uncaught_exception_cls ends the call at
\* once, re-raised as it is.
C35_RetryBound ==
    /\ [](rt.calls <= rt.max + 1)
    /\ [](rt.pc = "call" => rt.calls = rt.retries /\ rt.slept = 2 * rt.retries)
    /\ [](rt.pc = "raised" =>
             rt.calls = rt.max + 1 /\ rt.wraps = rt.last /\ rt.wraps # "none")
    /\ [][(rt.pc = "call" /\ rt.cls /\ rt'.last = "E1" /\ rt'.calls # rt.calls)
             => rt'.pc = "reraised" /\ rt'.retries = rt.retries
                /\ rt'.wraps = "none"]_vars

\* the wrapper has given up after six calls with max_retries = 5, having slept
\* 10 seconds after the fifth failure
C35_Witness ==
    /\ rt.pc = "raised" /\ rt.max = 5 /\ rt.calls = 6 /\ rt.slept = 10


\* C36: a poll of the reset-link wait that fetches a message sets the
\* watermark to its ID, whatever the message is; a password-changed or
\* forced-reset message fetched by the wait is below every message the
\* detection listener fetches from then on.
C36_WaitConsumesMail ==
    /\ [][(pc = "waitlink" /\ lastFetch'[cur] # lastFetch[cur])
             => /\ last_id'[cur] = lastFetch'[cur].id
                /\ last_id'[cur] > get_mail_last_id(cur)]_vars
    /\ [][\A a \in AllAccounts :
            (task[a] = "queued" /\ task'[a] = "done"
             /\ lastFetch'[a] # lastFetch[a])
               => lastFetch'[a].id > lastFetch[a].waitEvt]_vars
    /\ [](\A a \in AllAccounts : lastFetch[a].waitEvt <= get_mail_last_id(a))

\* the wait of an incident fetched a password-changed or forced-reset
\* message, and a later detection poll of the account has fetched a newer one
C36_Witness ==
    /\ lastFetch["a1"].waitEvt > 0
    /\ task["a1"] = "done"
    /\ lastFetch["a1"].id > lastFetch["a1"].waitEvt
    /\ pc = "collect"


\* a poll of account a returns a message in this step
Returns(a) == lastFetch'[a] # lastFetch[a]

\* C37 as stated: a poll that returns a message returns the newest message of
\* the mailbox.
C37_NewestReturned ==
    [][\A a \in AllAccounts : Returns(a) => lastFetch'[a].id = Len(mailbox[a])]_vars

\* C37: a poll returns one message from above the watermark; the watermark
\* becomes its ID, so the older messages above the old watermark are out of
\* reach of every later poll and the newer ones, whose fetch failed, stay in
\* reach; the detection listener classifies the returned message and no other;
\* a message once out of reach stays so.
C37_OlderOnesAreLost ==
    /\ [][\A a \in AllAccounts : Returns(a) =>
            LET id == lastFetch'[a].id IN
            /\ id \in Fetchable(a)
            /\ last_id'[a] = id
            /\ \A j \in Fetchable(a) : j \in Fetchable(a)' <=> j > id
            /\ (task[a] = "queued" /\ task'[a] = "done") =>
                  lastDet'[a].cls = EventClass(mailbox[a][id].body)]_vars
    /\ [][\A a \in AllAccounts : \A j \in 1 .. Len(mailbox[a]) :
            j \notin Fetchable(a) => j \notin Fetchable(a)']_vars

\* a detection poll has classified a password-changed or forced-reset message
\* and passed over at least one older message above the old watermark
C37_Witness ==
    /\ task["a1"] = "done" /\ lastDet["a1"].cls # 0
    /\ lastFetch["a1"].id = last_id["a1"]
    /\ lastFetch["a1"].id >= lastFetch["a1"].before + 2


\* C38: the flag is tested before first_time: a password-changed mail
\* classified with need_to_do = 0 is swallowed whether or not the account is in
\* first_time, sets the flag to 1 and leaves first_time as it was; classified
\* without the flag for an account not in first_time and without --force, it
\* is ignored by the first-run rule, which records the account, whatever was
\* swallowed before.
C38_SwallowBeforeFirstRun ==
    [][\A a \in AllAccounts :
          (DetectedStep(a) /\ lastDet'[a].cls = 1) =>
             /\ is_need_to_do(a) = 0 =>
                   /\ result'[a] = 0
                   /\ need_to_do'[a] = 1
                   /\ first_time' = first_time
             /\ (is_need_to_do(a) # 0 /\ a \notin first_time /\ ~force) =>
                   /\ result'[a] = 0
                   /\ need_to_do'[a] = need_to_do[a]
                   /\ first_time' = first_time \cup {a}]_vars

\* a password-changed mail has been ignored by the first-run rule after an
\* earlier one of the same account was swallowed
C38_Witness ==
    /\ task["a1"] = "done" /\ lastDet["a1"].verdict = "firstrun"
    /\ lastDet["a1"].after /\ result["a1"] = 0 /\ "a1" \in first_time


\* C39: a message classified as forced reset (the forced-reset pattern without
\* the password-changed one) always makes the poll return an incident of type
\* 2, whatever need_to_do and first_time hold, and the poll leaves both as they
\* were.
C39_ForcedResetAlwaysIncident ==
    [][\A a \in AllAccounts :
          (DetectedStep(a) /\ lastDet'[a].cls = 2) =>
             /\ result'[a] = 2
             /\ lastDet'[a].verdict = "incident"
             /\ need_to_do' = need_to_do
             /\ first_time' = first_time]_vars

\* a forced reset has been detected with the flag set, for an account that is
\* not in first_time, without --force
C39_Witness ==
    /\ task["a1"] = "done" /\ lastDet["a1"].cls = 2 /\ result["a1"] = 2
    /\ need_to_do["a1"] = 0 /\ "a1" \notin first_time /\ ~force


\* this step makes the last password change of a recovery and sees it
\* confirmed: the success branch of the try block follows it in the same step
FinalChangeConfirmed ==
    /\ Len(subs') = Len(subs) + 1
    /\ subs'[Len(subs')].res = "ok"
    /\ \/ subs'[Len(subs')].step = "inAcct"
       \/ evt = 1 /\ subs'[Len(subs')].step \in {"viaMail", "fbInAcct"}

\* C40: a notification that cannot be sent changes nothing but itself. After
\* the confirmed last password change the success notification is attempted
\* and, sent or not, the except clause is not entered, the incident ends as
\* recovered with need_to_do = 0 and the loop goes on to the next future
\* (before the last attempt; on the last one the finally clause gives up
\* instead); the failure notification, sent or not, ends the incident as
\* exhausted with need_to_do = 1 and the loop goes on; a step in which
\* send_mail returns False ends where the sent one does.
C40_MailFailureChangesNothing ==
    /\ [][FinalChangeConfirmed =>
            /\ okMails' = okMails + 1
            /\ pc' = "collect"
            /\ num < max_num_of_attempts =>
                  /\ ended' = "recovered"
                  /\ need_to_do'[cur] = 0
                  /\ failMails' = failMails]_vars
    /\ [][failMails' > failMails =>
            /\ pc' = "collect"
            /\ ended' = "exhausted"
            /\ need_to_do'[cur] = 1]_vars
    /\ [][unsent' > unsent =>
            /\ pc' = "collect"
            /\ okMails' + failMails' > okMails + failMails
            /\ ended' \in {"recovered", "exhausted", "error"}
            /\ ended' = "recovered" <=> (okMails' > okMails /\ num < max_num_of_attempts)
            /\ need_to_do'[cur] = IF ended' = "recovered" THEN 0 ELSE 1]_vars

\* the password is back, the success notification could not be sent, and the
\* incident has ended as recovered with the flag set
C40_Witness ==
    /\ unsent = 1 /\ okMails = 1 /\ failMails = 0
    /\ ended = "recovered" /\ pc = "collect"
    /\ cur = "a1" /\ pwd["a1"] = "orig" /\ need_to_do["a1"] = 0

====
